---- MODULE Spec2Model ----
(***************************************************************************)
(* Real-time room/session state engine of the attention-monitoring backend *)
(* (backend/realtime/socket_handlers.py) and the REST dashboard read path  *)
(* (backend/api/dashboard_routes.py).                                      *)
(*                                                                         *)
(* Every socket event handler is an asyncio coroutine.  The code between   *)
(* two `await`s runs atomically on the event loop; at an `await` the       *)
(* handler may be suspended and any other handler may run.  A handler in   *)
(* flight is a record of `tasks`: its position (pc), its locals, and the   *)
(* message it handed to sio.emit at the await where it is suspended.       *)
(***************************************************************************)
EXTENDS Integers, Sequences, FiniteSets, Bags, TLC

VARIABLES
    rooms,                \* socket_handlers.rooms: room code -> sid -> participant
    room_attention_data,  \* socket_handlers.room_attention_data: room code -> sid -> reading
    tasks,                \* bag of the handler coroutines suspended at an await
    out,                  \* what the most recent step did: the message it handed to
                          \* sio.emit, or how its handler ended
    db_sessions,          \* table class_sessions (row index = ClassSession.id)
    db_participants,      \* table session_participants
    rest,                 \* response of the most recent request to the REST API
    closed                \* connection ids the server has delivered disconnect for and
                          \* delivers no further event for (used by SpecLife alone; the
                          \* other specifications let a connection id be used again)

vars == <<rooms, room_attention_data, tasks, out, db_sessions, db_participants, rest, closed>>

----------------------------------------------------------------------------
(* Bounds *)

NumSids == 2
NumRooms == 2
MaxTasks == 2
MaxParticipants == 3

SidName == <<"c1", "c2", "c3", "c4">>
RoomName == <<"default", "R1", "R2", "R3">>

Sids == {SidName[i] : i \in 1..NumSids}
RoomCodes == {RoomName[i] : i \in 1..NumRooms}

None == "None"

(* data.get("user_id") of a join without a durable user: `if user_db_id:`  *)
(* (line 74) is false for it.  Durable user ids are positive integers.     *)
NoUser == 0

----------------------------------------------------------------------------
(* Python dict with insertion order: a sequence of [k, v] entries.  The    *)
(* order is observable: list(d.keys()) and d.items() iterate in it.        *)

DictKeys(d) == [i \in 1..Len(d) |-> d[i].k]

KeySet(d) == {d[i].k : i \in 1..Len(d)}

Has(d, key) == \E i \in 1..Len(d) : d[i].k = key

Get(d, key) == d[CHOOSE i \in 1..Len(d) : d[i].k = key].v

Put(d, key, val) ==
    IF Has(d, key)
    THEN [i \in 1..Len(d) |-> IF d[i].k = key THEN [k |-> key, v |-> val] ELSE d[i]]
    ELSE Append(d, [k |-> key, v |-> val])

Del(d, key) == SelectSeq(d, LAMBDA e : e.k # key)

SetDefault(d, key, val) == IF Has(d, key) THEN d ELSE Append(d, [k |-> key, v |-> val])

(* room_attention_data is never iterated (only `in`, .get, [] and del), so *)
(* its order is unobservable: a function whose DOMAIN is the key set.      *)

MapDel(f, key) == [x \in (DOMAIN f) \ {key} |-> f[x]]

MapPut(f, key, val) == [x \in (DOMAIN f) \cup {key} |-> IF x = key THEN val ELSE f[x]]

EmptyMap == [x \in {} |-> None]

----------------------------------------------------------------------------
(* Dashboard aggregation                                                   *)

(* sum(1 for p in participants_info if p["is_attentive"] is <val>)         *)
RECURSIVE CountIs(_, _)
CountIs(infos, val) ==
    IF infos = <<>> THEN 0
    ELSE (IF Head(infos).is_attentive = val THEN 1 ELSE 0) + CountIs(Tail(infos), val)

(* attention_rate truncating to the tenth below instead of rounding        *)
attention_rate_trunc(count, total) ==
    IF total = 0 THEN 0 ELSE (count * 1000) \div total

(* round((count / total * 100) if total else 0, 1), in tenths of a percent *)
(* (50.0 is 500).  Python rounds the quotient to the nearest tenth, a tie  *)
(* going to the even tenth.                                                *)
attention_rate(count, total) ==
    IF total = 0 THEN 0
    ELSE LET q == (count * 1000) \div total
             r == (count * 1000) % total
         IN  IF 2 * r > total THEN q + 1
             ELSE IF 2 * r < total THEN q
             ELSE IF q % 2 = 0 THEN q ELSE q + 1

(* room_attention_data.get(room_code, {}) and rooms.get(room_code, {})     *)
AttentionOf(led, room_code) == IF room_code \in DOMAIN led THEN led[room_code] ELSE EmptyMap

UsersOf(rm, room_code) == IF Has(rm, room_code) THEN Get(rm, room_code) ELSE <<>>

(* The participants_info loop, shared by both call sites: one entry per    *)
(* registry participant in dict order, is_attentive None when the ledger   *)
(* has no reading for the participant.  confidence, prob_attentive,        *)
(* prob_inattentive and timestamp are copied through and never read.       *)
participants_info(rm, led, room_code) ==
    LET room_users == UsersOf(rm, room_code)
        attention_data == AttentionOf(led, room_code)
    IN  [i \in 1..Len(room_users) |->
            [id |-> room_users[i].k,
             name |-> room_users[i].v.name,
             is_attentive |-> IF room_users[i].k \in DOMAIN attention_data
                              THEN attention_data[room_users[i].k].is_attentive
                              ELSE None]]

(* Payload of the dashboard-update emitted by _broadcast_dashboard_update  *)
broadcast_dashboard_update(rm, led, room_code) ==
    LET info == participants_info(rm, led, room_code)
        total == Len(info)
        attentive == CountIs(info, "True")
    IN  [room_code |-> room_code,
         stats |-> [total |-> total,
                    attentive |-> attentive,
                    inattentive |-> total - attentive,
                    attention_rate |-> attention_rate(attentive, total)],
         participants |-> info]

(* Body of GET /dashboard/session/{room_code} once the session row exists  *)
session_dashboard_stats(rm, led, room_code) ==
    LET info == participants_info(rm, led, room_code)
        total == Len(info)
        attentive_count == CountIs(info, "True")
        inattentive_count == CountIs(info, "False")
    IN  [room_code |-> room_code,
         stats |-> [total |-> total,
                    attentive |-> attentive_count,
                    inattentive |-> inattentive_count,
                    attention_rate |-> attention_rate(attentive_count, total)],
         participants |-> info]

----------------------------------------------------------------------------
(* Handler coroutines                                                      *)

(* A suspended coroutine: the handler, its sid, the await it is suspended  *)
(* at, and the locals it reads after the await.                            *)
Task(op, sid, pc, room) ==
    [op |-> op, sid |-> sid, pc |-> pc, room |-> room, name |-> None,
     user_db_id |-> NoUser, keys |-> <<>>, users |-> <<>>, target |-> None]

NoPayload == [room_code |-> None]

(* One step of handler tk.op: status is "suspended" (at the await of the   *)
(* emit described, or of enter_room when event is None), "returned" or     *)
(* "raised".  start marks the first step of a handler (the dispatch of its *)
(* event); stale marks an event dispatched right after the disconnect      *)
(* handler of the same connection returned.  left is the room of the last  *)
(* "User %s left room %s" (line 49) of a disconnect handler that returns,  *)
(* and is kept by the stale event that follows it.  failed names what      *)
(* raised in the step: the event of an emit that raised, "db" for the      *)
(* participation write that join_room absorbs, None otherwise.             *)
Out(tk, status, event, to, skip_sid, payload) ==
    [op |-> tk.op, sid |-> tk.sid, room |-> tk.room, status |-> status,
     event |-> event, to |-> to, skip_sid |-> skip_sid, payload |-> payload,
     start |-> FALSE, stale |-> FALSE, left |-> None, failed |-> None]

Dispatched(o) ==
    LET stale == out.op = "disconnect" /\ out.status = "returned" /\ out.sid = o.sid
    IN  [o EXCEPT !.start = TRUE, !.stale = stale,
                  !.left = IF stale THEN out.left ELSE None]

NoOut == Out(Task(None, None, None, None), None, None, None, None, NoPayload)

Returned(tk) == Out(tk, "returned", None, None, None, NoPayload)

Raised(tk) == Out(tk, "raised", None, None, None, NoPayload)

InFlight == BagToSet(tasks)

(* At most MaxTasks coroutines are suspended at once.                      *)
CanStart == BagCardinality(tasks) < MaxTasks

Without(tk) == tasks (-) SetToBag({tk})

With(bag, tk) == bag (+) SetToBag({tk})

(* await _broadcast_dashboard_update(room_code): the coroutine computes    *)
(* the payload from the registry and the ledger as they are now, hands it  *)
(* to sio.emit and is suspended there.                                     *)
DashboardStep(tk) ==
    /\ tasks' = With(Without(tk), [tk EXCEPT !.pc = "dashboard"])
    /\ out' = Out(tk, "suspended", "dashboard-update", tk.room, None,
                  broadcast_dashboard_update(rooms, room_attention_data, tk.room))
    /\ UNCHANGED <<rooms, room_attention_data, db_sessions, db_participants, rest, closed>>

----------------------------------------------------------------------------
(* disconnect(sid): socket_handlers.py lines 33-52.                        *)
(* The handler snapshots list(rooms.keys()) and, per room, the list of its *)
(* user ids; it is suspended at each emit, and on resumption goes on with  *)
(* the snapshots it took, indexing rooms[room_code] and                    *)
(* rooms[room_code][user_id] without checking that they still exist        *)
(* (KeyError).                                                             *)

DiscResult(rm, led, outcome, room_code, users, keys, user_id) ==
    [rm |-> rm, led |-> led, outcome |-> outcome, room |-> room_code,
     users |-> users, keys |-> keys, user_id |-> user_id]

(* Leave without line 39: the participant stays registered.                *)
Leave_keep(rm, room_code, user_id) == rm

(* line 39: del rooms[room_code][user_id]                                  *)
Leave(rm, room_code, user_id) == Put(rm, room_code, Del(Get(rm, room_code), user_id))

(* lines 40-44                                                             *)
Forget(led, room_code, user_id) ==
    IF room_code \in DOMAIN led /\ user_id \in DOMAIN led[room_code]
    THEN [led EXCEPT ![room_code] = MapDel(@, user_id)]
    ELSE led

RECURSIVE DiscNextRoom(_, _, _, _)
RECURSIVE DiscUsers(_, _, _, _, _, _)

(* DiscRoomEnd without line 52: the emptied room keeps its ledger entry.   *)
DiscRoomEnd_keepLedger(rm, led, sid, room_code, keys) ==
    IF ~Has(rm, room_code)
    THEN DiscResult(rm, led, "raised", room_code, <<>>, keys, None)
    ELSE IF Get(rm, room_code) = <<>>
         THEN DiscNextRoom(Del(rm, room_code), led, sid, keys)
         ELSE DiscNextRoom(rm, led, sid, keys)

(* lines 50-52, then the next iteration of the outer loop                  *)
DiscRoomEnd(rm, led, sid, room_code, keys) ==
    IF ~Has(rm, room_code)
    THEN DiscResult(rm, led, "raised", room_code, <<>>, keys, None)
    ELSE IF Get(rm, room_code) = <<>>
         THEN DiscNextRoom(Del(rm, room_code), MapDel(led, room_code), sid, keys)
         ELSE DiscNextRoom(rm, led, sid, keys)

(* lines 37-47: the inner loop over the snapshot `users` of room_code, up  *)
(* to and including the user-left emit                                     *)
DiscUsers(rm, led, sid, room_code, users, keys) ==
    IF users = <<>> THEN DiscRoomEnd(rm, led, sid, room_code, keys)
    ELSE LET user_id == Head(users) IN
         IF ~Has(rm, room_code) \/ ~Has(Get(rm, room_code), user_id)
         THEN DiscResult(rm, led, "raised", room_code, Tail(users), keys, user_id)
         ELSE IF Get(Get(rm, room_code), user_id).sid = sid
              THEN DiscResult(Leave(rm, room_code, user_id),
                              Forget(led, room_code, user_id),
                              "await", room_code, Tail(users), keys, user_id)
              ELSE DiscUsers(rm, led, sid, room_code, Tail(users), keys)

(* lines 36-37: the next room of the snapshot `keys`                       *)
DiscNextRoom(rm, led, sid, keys) ==
    IF keys = <<>> THEN DiscResult(rm, led, "done", None, <<>>, <<>>, None)
    ELSE IF ~Has(rm, Head(keys))
         THEN DiscResult(rm, led, "raised", Head(keys), <<>>, Tail(keys), None)
         ELSE DiscUsers(rm, led, sid, Head(keys),
                        DictKeys(Get(rm, Head(keys))), Tail(keys))

(* The effect of one run of the disconnect loops, up to the next await,    *)
(* the return or the KeyError; `bag` is tasks without the running handler. *)
DisconnectRun(bag, sid, res, start, left) ==
    /\ rooms' = res.rm
    /\ room_attention_data' = res.led
    /\ IF res.outcome = "await"
       THEN LET tk == [Task("disconnect", sid, "user_left", res.room)
                           EXCEPT !.users = res.users, !.keys = res.keys]
                o == Out(tk, "suspended", "user-left", res.room, sid,
                         [id |-> res.user_id])
            IN  /\ tasks' = With(bag, tk)
                /\ out' = IF start THEN Dispatched(o) ELSE o
       ELSE LET o == IF res.outcome = "done"
                     THEN [Returned(Task("disconnect", sid, None, None))
                              EXCEPT !.left = left]
                     ELSE Raised(Task("disconnect", sid, None, None))
            IN  /\ tasks' = bag
                /\ out' = IF start THEN Dispatched(o) ELSE o
    /\ UNCHANGED <<db_sessions, db_participants, rest>>

(* The disconnect event for sid: the handler starts and runs to its first  *)
(* await (or to its end).                                                  *)
disconnect(sid) ==
    /\ CanStart
    /\ DisconnectRun(tasks, sid,
                     DiscNextRoom(rooms, room_attention_data, sid, DictKeys(rooms)),
                     TRUE, None)
    /\ UNCHANGED closed

(* The disconnect event of a connection that is not used again: the server *)
(* delivers it once, and no event of the connection after it.              *)
disconnect_once(sid) ==
    /\ CanStart
    /\ sid \notin closed
    /\ DisconnectRun(tasks, sid,
                     DiscNextRoom(rooms, room_attention_data, sid, DictKeys(rooms)),
                     TRUE, None)
    /\ closed' = closed \cup {sid}

(* Resumption after `await sio.emit("user-left", ...)`: line 48            *)
disconnect_dashboard(tk) ==
    /\ tk.op = "disconnect"
    /\ tk.pc = "user_left"
    /\ DashboardStep(tk)

(* Resumption after the dashboard-update emit: line 49 and on through the  *)
(* loops.                                                                  *)
disconnect_resume(tk) ==
    /\ tk.op = "disconnect"
    /\ tk.pc = "dashboard"
    /\ DisconnectRun(Without(tk), tk.sid,
                     DiscUsers(rooms, room_attention_data, tk.sid, tk.room,
                               tk.users, tk.keys),
                     FALSE, tk.room)
    /\ UNCHANGED closed

----------------------------------------------------------------------------
(* join_room(sid, data): socket_handlers.py lines 54-113.                  *)

(* ActiveSessionId without the is_active filter of line 79: the session    *)
(* of the room, ended or not.                                              *)
ActiveSessionId_any(sessions, room) ==
    LET ids == {i \in 1..Len(sessions) : sessions[i].room_code = room}
    IN  IF ids = {} THEN 0 ELSE CHOOSE i \in ids : \A j \in ids : i <= j

(* db.query(ClassSession).filter(room_code == room, is_active).first():    *)
(* the id of the row, 0 when there is none                                 *)
ActiveSessionId(sessions, room) ==
    LET ids == {i \in 1..Len(sessions) :
                    sessions[i].room_code = room /\ sessions[i].is_active}
    IN  IF ids = {} THEN 0 ELSE CHOOSE i \in ids : \A j \in ids : i <= j

(* AddParticipant without the query of lines 83-91: a row is added at      *)
(* every join of an active session.                                        *)
AddParticipant_again(sessions, parts, room, user_db_id) ==
    LET session_id == ActiveSessionId(sessions, room) IN
    IF user_db_id = NoUser \/ session_id = 0 THEN parts
    ELSE Append(parts, [session_id |-> session_id, user_id |-> user_db_id,
                        left_at |-> None])

(* lines 74-106: the durable participation row                             *)
AddParticipant(sessions, parts, room, user_db_id) ==
    LET session_id == ActiveSessionId(sessions, room) IN
    IF user_db_id = NoUser \/ session_id = 0 THEN parts
    ELSE IF \E i \in 1..Len(parts) :
                parts[i].session_id = session_id /\ parts[i].user_id = user_db_id
         THEN parts
         ELSE Append(parts, [session_id |-> session_id, user_id |-> user_db_id,
                             left_at |-> None])

(* lines 67-70                                                             *)
existing_users(room_users) ==
    [i \in 1..Len(room_users) |-> [id |-> room_users[i].k, name |-> room_users[i].v.name]]

(* Register as a setdefault: an entry already present is kept.             *)
Register_keep(rm, room, sid, name, user_db_id) ==
    IF Has(Get(rm, room), sid)
    THEN rm
    ELSE Put(rm, room, Put(Get(rm, room), sid,
                           [name |-> name, sid |-> sid, user_db_id |-> user_db_id]))

(* line 72                                                                 *)
Register(rm, room, sid, name, user_db_id) ==
    Put(rm, room, Put(Get(rm, room), sid,
                      [name |-> name, sid |-> sid, user_db_id |-> user_db_id]))

(* JoinRegistry with lines 67-70 after line 72: the list is taken once the *)
(* joiner is registered.                                                   *)
JoinRegistry_late(rm, room, sid, name, user_db_id) ==
    LET rm2 == Register(SetDefault(rm, room, <<>>), room, sid, name, user_db_id)
    IN  [rooms |-> rm2, existing |-> existing_users(Get(rm2, room))]

(* lines 64-72 on the registry: the room is created when absent, the list  *)
(* of existing users is taken, then the joiner is registered.              *)
JoinRegistry(rm, room, sid, name, user_db_id) ==
    LET rm1 == SetDefault(rm, room, <<>>)
    IN  [rooms |-> Register(rm1, room, sid, name, user_db_id),
         existing |-> existing_users(Get(rm1, room))]

(* TrackRoom without line 65: the ledger learns of the room only from the  *)
(* updates sent for it.                                                    *)
TrackRoom_skip(led, room) == led

(* line 65: room_attention_data.setdefault(room, {})                       *)
TrackRoom(led, room) ==
    IF room \in DOMAIN led THEN led ELSE MapPut(led, room, EmptyMap)

(* The join_room event: lines 56-63, up to `await sio.enter_room`.  A      *)
(* payload without "room" or "name" takes the defaults.                    *)
join_room(sid, room_in, name_in, user_db_id) ==
    /\ CanStart
    /\ LET tk == [Task("join_room", sid, "enter_room",
                       IF room_in = None THEN "default" ELSE room_in)
                      EXCEPT !.name = IF name_in = None THEN "Anonymous" ELSE name_in,
                             !.user_db_id = user_db_id]
       IN  /\ tasks' = With(tasks, tk)
           /\ out' = Dispatched(Out(tk, "suspended", None, None, None, NoPayload))
    /\ UNCHANGED <<rooms, room_attention_data, db_sessions, db_participants, rest, closed>>

(* JoinRegister with the except clause of lines 103-104 re-raising: a      *)
(* failed participation write ends the handler.                            *)
JoinRegister_fatal(tk, parts, failed) ==
    /\ tk.op = "join_room"
    /\ tk.pc = "enter_room"
    /\ LET j == JoinRegistry(rooms, tk.room, tk.sid, tk.name, tk.user_db_id)
       IN  /\ rooms' = j.rooms
           /\ room_attention_data' = TrackRoom(room_attention_data, tk.room)
           /\ db_participants' = parts
           /\ IF failed = None
              THEN /\ tasks' = With(Without(tk), [tk EXCEPT !.pc = "existing_users"])
                   /\ out' = Out(tk, "suspended", "existing-users", tk.sid, None,
                                 [users |-> j.existing])
              ELSE /\ tasks' = Without(tk)
                   /\ out' = [Raised(tk) EXCEPT !.failed = failed]
    /\ UNCHANGED <<db_sessions, rest, closed>>

(* Resumption after enter_room: lines 64-108, up to the existing-users     *)
(* unicast.  parts is the participation table the block of lines 74-106    *)
(* leaves; failed is "db" when a statement of the block raised, which the  *)
(* except clause of lines 103-104 logs.                                    *)
JoinRegister(tk, parts, failed) ==
    /\ tk.op = "join_room"
    /\ tk.pc = "enter_room"
    /\ LET j == JoinRegistry(rooms, tk.room, tk.sid, tk.name, tk.user_db_id)
       IN  /\ rooms' = j.rooms
           /\ room_attention_data' = TrackRoom(room_attention_data, tk.room)
           /\ db_participants' = parts
           /\ tasks' = With(Without(tk), [tk EXCEPT !.pc = "existing_users"])
           /\ out' = [Out(tk, "suspended", "existing-users", tk.sid, None,
                          [users |-> j.existing]) EXCEPT !.failed = failed]
    /\ UNCHANGED <<db_sessions, rest, closed>>

(* The participation write goes through (or is not attempted).             *)
join_room_register(tk) ==
    JoinRegister(tk, AddParticipant(db_sessions, db_participants, tk.room, tk.user_db_id),
                 None)

(* A statement of lines 77-97 raises: nothing is committed.                *)
join_room_register_db_error(tk) ==
    /\ tk.user_db_id # NoUser
    /\ JoinRegister(tk, db_participants, "db")

(* lines 109-111                                                           *)
join_room_user_joined(tk) ==
    /\ tk.op = "join_room"
    /\ tk.pc = "existing_users"
    /\ tasks' = With(Without(tk), [tk EXCEPT !.pc = "user_joined"])
    /\ out' = Out(tk, "suspended", "user-joined", tk.room, tk.sid,
                  [id |-> tk.sid, name |-> tk.name])
    /\ UNCHANGED <<rooms, room_attention_data, db_sessions, db_participants, rest, closed>>

(* line 112                                                                *)
join_room_dashboard(tk) ==
    /\ tk.op = "join_room"
    /\ tk.pc = "user_joined"
    /\ DashboardStep(tk)

(* line 113: len(rooms[room]) raises KeyError when the room is gone        *)
join_room_finish(tk) ==
    /\ tk.op = "join_room"
    /\ tk.pc = "dashboard"
    /\ tasks' = Without(tk)
    /\ out' = IF Has(rooms, tk.room) THEN Returned(tk) ELSE Raised(tk)
    /\ UNCHANGED <<rooms, room_attention_data, db_sessions, db_participants, rest, closed>>

----------------------------------------------------------------------------
(* attention_update(sid, data): socket_handlers.py lines 115-141.          *)
(* room_in = None is a payload without "room".  data["name"] and the       *)
(* numeric fields are copied into the payloads and never read.             *)

(* line 120                                                                *)
Tracked(led, room_in) == room_in # None /\ room_in \in DOMAIN led

(* StoreReading writing the reading under every participant of the room   *)
StoreReading_room(rm, led, room_code, sid, is_attentive) ==
    [led EXCEPT ![room_code] =
        [c \in DOMAIN @ \cup KeySet(UsersOf(rm, room_code)) \cup {sid} |->
            IF c \in KeySet(UsersOf(rm, room_code)) \cup {sid}
            THEN [is_attentive |-> is_attentive] ELSE @[c]]]

(* lines 121-127: room_attention_data[room_code][sid] = {...}              *)
StoreReading(rm, led, room_code, sid, is_attentive) ==
    [led EXCEPT ![room_code] = MapPut(@, sid, [is_attentive |-> is_attentive])]

attention_update(sid, room_in, is_attentive) ==
    /\ CanStart
    /\ IF Tracked(room_attention_data, room_in)
       THEN LET tk == Task("attention_update", sid, "student_attention", room_in)
            IN  /\ room_attention_data' =
                       StoreReading(rooms, room_attention_data, room_in, sid,
                                    is_attentive)
                /\ tasks' = With(tasks, tk)
                /\ out' = Dispatched(Out(tk, "suspended", "student_attention", room_in,
                                         sid, [odId |-> sid,
                                               is_attentive |-> is_attentive]))
       ELSE /\ room_attention_data' = room_attention_data
            /\ tasks' = tasks
            /\ out' = Dispatched(Returned(Task("attention_update", sid, None, room_in)))
    /\ UNCHANGED <<rooms, db_sessions, db_participants, rest, closed>>

(* line 141                                                                *)
attention_update_dashboard(tk) ==
    /\ tk.op = "attention_update"
    /\ tk.pc = "student_attention"
    /\ DashboardStep(tk)

attention_update_finish(tk) ==
    /\ tk.op = "attention_update"
    /\ tk.pc = "dashboard"
    /\ tasks' = Without(tk)
    /\ out' = Returned(tk)
    /\ UNCHANGED <<rooms, room_attention_data, db_sessions, db_participants, rest, closed>>

----------------------------------------------------------------------------
(* An emit that raises.  No handler catches around sio.emit, so the        *)
(* exception ends the handler at the await where it is suspended.          *)

EmitPcs == {"user_left", "existing_users", "user_joined", "student_attention", "dashboard"}

EventOf(pc) ==
    CASE pc = "user_left" -> "user-left"
      [] pc = "existing_users" -> "existing-users"
      [] pc = "user_joined" -> "user-joined"
      [] pc = "student_attention" -> "student_attention"
      [] pc = "dashboard" -> "dashboard-update"

emit_raises(tk) ==
    /\ tk.op \in {"disconnect", "join_room", "attention_update"}
    /\ tk.pc \in EmitPcs
    /\ tasks' = Without(tk)
    /\ out' = [Raised(tk) EXCEPT !.failed = EventOf(tk.pc)]
    /\ UNCHANGED <<rooms, room_attention_data, db_sessions, db_participants, rest, closed>>

----------------------------------------------------------------------------
(* offer, answer, ice_candidate: socket_handlers.py lines 157-178.  Each   *)
(* relay reads data["target"] and awaits one sio.emit(..., to=target); the *)
(* relayed body (offer, answer, candidate) is copied through and never     *)
(* read.  A payload without "target" gives to=None.                        *)

(* lines 161-165: the name under which sid is registered in the first room *)
(* of the registry that holds it                                           *)
sender_name(rm, sid) ==
    LET found == {i \in 1..Len(rm) : Has(rm[i].v, sid)}
    IN  IF found = {} THEN "Anonimo"
        ELSE Get(rm[CHOOSE i \in found : \A j \in found : i <= j].v, sid).name

(* Relay with the emit addressed to the sender instead of the target       *)
Relay_echo(op, event, sid, target, payload) ==
    /\ CanStart
    /\ LET tk == [Task(op, sid, "relay", None) EXCEPT !.target = target]
       IN  /\ tasks' = With(tasks, tk)
           /\ out' = Dispatched(Out(tk, "suspended", event, sid, None, payload))
    /\ UNCHANGED <<rooms, room_attention_data, db_sessions, db_participants, rest, closed>>

(* The single emit of a relay: the handler is suspended at it.             *)
Relay(op, event, sid, target, payload) ==
    /\ CanStart
    /\ LET tk == [Task(op, sid, "relay", None) EXCEPT !.target = target]
       IN  /\ tasks' = With(tasks, tk)
           /\ out' = Dispatched(Out(tk, "suspended", event, target, None, payload))
    /\ UNCHANGED <<rooms, room_attention_data, db_sessions, db_participants, rest, closed>>

offer(sid, target) ==
    Relay("offer", "offer", sid, target, [from |-> sid, name |-> sender_name(rooms, sid)])

answer(sid, target) == Relay("answer", "answer", sid, target, [from |-> sid])

ice_candidate(sid, target) ==
    Relay("ice_candidate", "ice-candidate", sid, target, [from |-> sid])

(* Resumption after the emit: the relay returns.                           *)
relay_finish(tk) ==
    /\ tk.pc = "relay"
    /\ tasks' = Without(tk)
    /\ out' = Returned(tk)
    /\ UNCHANGED <<rooms, room_attention_data, db_sessions, db_participants, rest, closed>>

----------------------------------------------------------------------------
(* chat_message and transcript_update: socket_handlers.py lines 143-155    *)
(* and 186-203.  room_in = None is a payload without "room".  The body of  *)
(* the message is copied through and never read.                           *)

(* lines 151-153 and 199-201: the first room of the registry, in dict      *)
(* order, with a participant whose sid is sid; None when there is none     *)
lookup_room(rm, sid) ==
    LET found == {i \in 1..Len(rm) :
                     \E u \in 1..Len(rm[i].v) : rm[i].v[u].v.sid = sid}
    IN  IF found = {} THEN None
        ELSE rm[CHOOSE i \in found : \A j \in found : i <= j].k

(* lines 147 and 195, then the lookup: the room the event is broadcast to, *)
(* None when it is dropped                                                 *)
broadcast_room(rm, sid, room_in) ==
    IF room_in # None /\ Has(rm, room_in) THEN room_in ELSE lookup_room(rm, sid)

(* Room broadcast without skip_sid: the sender is not excluded             *)
RoomBroadcast_all(op, sid, room_in, payload) ==
    /\ CanStart
    /\ LET room == broadcast_room(rooms, sid, room_in) IN
       IF room # None
       THEN LET tk == Task(op, sid, "broadcast", room)
            IN  /\ tasks' = With(tasks, tk)
                /\ out' = Dispatched(Out(tk, "suspended", op, room, None, payload))
       ELSE /\ tasks' = tasks
            /\ out' = Dispatched(Returned(Task(op, sid, None, room_in)))
    /\ UNCHANGED <<rooms, room_attention_data, db_sessions, db_participants, rest, closed>>

(* The handler up to its emit (event name = handler name), at which it is  *)
(* suspended, or to its end when no room is found.                         *)
RoomBroadcast(op, sid, room_in, payload) ==
    /\ CanStart
    /\ LET room == broadcast_room(rooms, sid, room_in) IN
       IF room # None
       THEN LET tk == Task(op, sid, "broadcast", room)
            IN  /\ tasks' = With(tasks, tk)
                /\ out' = Dispatched(Out(tk, "suspended", op, room, sid, payload))
       ELSE /\ tasks' = tasks
            /\ out' = Dispatched(Returned(Task(op, sid, None, room_in)))
    /\ UNCHANGED <<rooms, room_attention_data, db_sessions, db_participants, rest, closed>>

chat_message(sid, room_in) ==
    RoomBroadcast("chat_message", sid, room_in, [room |-> room_in])

transcript_update(sid, room_in) ==
    RoomBroadcast("transcript_update", sid, room_in, [odId |-> sid])

(* lines 149/155 and 197/203: return after the emit                        *)
broadcast_finish(tk) ==
    /\ tk.pc = "broadcast"
    /\ tasks' = Without(tk)
    /\ out' = Returned(tk)
    /\ UNCHANGED <<rooms, room_attention_data, db_sessions, db_participants, rest, closed>>

----------------------------------------------------------------------------
(* end_session(sid, data): socket_handlers.py lines 180-184.  The handler  *)
(* reads nothing but data["room"].                                         *)

(* end_session closing the room in memory as well: the room leaves the     *)
(* registry and the ledger before session-ended is emitted.                *)
end_session_evict(sid, room_in) ==
    /\ CanStart
    /\ IF room_in # None
       THEN LET tk == Task("end_session", sid, "session_ended", room_in)
            IN  /\ tasks' = With(tasks, tk)
                /\ out' = Dispatched(Out(tk, "suspended", "session-ended", room_in,
                                         None, [room_code |-> room_in]))
                /\ rooms' = Del(rooms, room_in)
                /\ room_attention_data' = MapDel(room_attention_data, room_in)
       ELSE /\ tasks' = tasks
            /\ out' = Dispatched(Returned(Task("end_session", sid, None, room_in)))
            /\ UNCHANGED <<rooms, room_attention_data>>
    /\ UNCHANGED <<db_sessions, db_participants, rest, closed>>

end_session(sid, room_in) ==
    /\ CanStart
    /\ IF room_in # None
       THEN LET tk == Task("end_session", sid, "session_ended", room_in)
            IN  /\ tasks' = With(tasks, tk)
                /\ out' = Dispatched(Out(tk, "suspended", "session-ended", room_in,
                                         None, [room_code |-> room_in]))
       ELSE /\ tasks' = tasks
            /\ out' = Dispatched(Returned(Task("end_session", sid, None, room_in)))
    /\ UNCHANGED <<rooms, room_attention_data, db_sessions, db_participants, rest, closed>>

end_session_finish(tk) ==
    /\ tk.op = "end_session"
    /\ tk.pc = "session_ended"
    /\ tasks' = Without(tk)
    /\ out' = Returned(tk)
    /\ UNCHANGED <<rooms, room_attention_data, db_sessions, db_participants, rest, closed>>

----------------------------------------------------------------------------
(* GET /dashboard/session/{room_code}: dashboard_routes.py lines 14-64,    *)
(* behind auth.get_current_teacher.  The route has no await of its own: it *)
(* reads rooms and room_attention_data in one step of the event loop.      *)

Users ==
    {[id |-> 1, role |-> "teacher"], [id |-> 2, role |-> "teacher"],
     [id |-> 3, role |-> "student"]}

NoStats == [total |-> 0, attentive |-> 0, inattentive |-> 0, attention_rate |-> 0]

(* A response of the REST API, with the id of the current_user it was     *)
(* computed for.                                                           *)
Response(user_id, status, session_id, room_code, stats, participants) ==
    [user_id |-> user_id, status |-> status, session_id |-> session_id,
     room_code |-> room_code, stats |-> stats, participants |-> participants]

(* db.query(ClassSession).filter(room_code == room_code).first(): the id   *)
(* of the row, 0 when there is none                                        *)
SessionId(sessions, room_code) ==
    LET ids == {i \in 1..Len(sessions) : sessions[i].room_code = room_code}
    IN  IF ids = {} THEN 0 ELSE CHOOSE i \in ids : \A j \in ids : i <= j

NoResponse == Response(0, 0, 0, None, NoStats, <<>>)

get_session_dashboard(current_user, room_code) ==
    /\ rest' =
         IF current_user.role \notin {"teacher", "admin"}
         THEN Response(current_user.id, 403, 0, room_code, NoStats, <<>>)
         ELSE IF SessionId(db_sessions, room_code) = 0
         THEN Response(current_user.id, 404, 0, room_code, NoStats, <<>>)
         ELSE LET d == session_dashboard_stats(rooms, room_attention_data, room_code)
              IN  Response(current_user.id, 200, SessionId(db_sessions, room_code),
                           room_code, d.stats, d.participants)
    /\ UNCHANGED <<rooms, room_attention_data, tasks, out, db_sessions, db_participants, closed>>

(* A row of class_sessions as create_session writes it                     *)
SessionRow(room_code, teacher_id) ==
    [room_code |-> room_code, teacher_id |-> teacher_id, is_active |-> TRUE]

(* POST /sessions/create: session_routes.py lines 19-47, behind           *)
(* auth.get_current_teacher.  _generate_room_code is drawn again until no  *)
(* row has the code, so room_code is any code that no row has.             *)
create_session(current_user, room_code) ==
    /\ SessionId(db_sessions, room_code) = 0
    /\ IF current_user.role \notin {"teacher", "admin"}
       THEN /\ db_sessions' = db_sessions
            /\ rest' = Response(current_user.id, 403, 0, None, NoStats, <<>>)
       ELSE /\ db_sessions' = Append(db_sessions, SessionRow(room_code, current_user.id))
            /\ rest' = Response(current_user.id, 200, Len(db_sessions) + 1, room_code,
                                NoStats, <<>>)
    /\ UNCHANGED <<rooms, room_attention_data, tasks, out, db_participants, closed>>

(* session_routes.py lines 94-101: the id of the first row with the room   *)
(* code and the teacher, 0 when there is none                              *)
OwnedSessionId(sessions, room_code, teacher_id) ==
    LET ids == {i \in 1..Len(sessions) : /\ sessions[i].room_code = room_code
                                         /\ sessions[i].teacher_id = teacher_id}
    IN  IF ids = {} THEN 0 ELSE CHOOSE i \in ids : \A j \in ids : i <= j

(* POST /sessions/{room_code}/end: session_routes.py lines 87-116, up to   *)
(* the await of the session-ended emit.                                    *)
end_session_route(current_user, room_code) ==
    /\ CanStart
    /\ LET session_id == OwnedSessionId(db_sessions, room_code, current_user.id) IN
       IF current_user.role \notin {"teacher", "admin"}
       THEN /\ rest' = Response(current_user.id, 403, 0, room_code, NoStats, <<>>)
            /\ UNCHANGED <<db_sessions, db_participants, tasks, out>>
       ELSE IF session_id = 0
       THEN /\ rest' = Response(current_user.id, 404, 0, room_code, NoStats, <<>>)
            /\ UNCHANGED <<db_sessions, db_participants, tasks, out>>
       ELSE LET tk == [Task("end_session_route", None, "session_ended", room_code)
                          EXCEPT !.user_db_id = current_user.id]
            IN  /\ db_sessions' = [db_sessions EXCEPT ![session_id].is_active = FALSE]
                /\ db_participants' =
                       [i \in 1..Len(db_participants) |->
                           IF /\ db_participants[i].session_id = session_id
                              /\ db_participants[i].left_at = None
                           THEN [db_participants[i] EXCEPT !.left_at = "utcnow"]
                           ELSE db_participants[i]]
                /\ tasks' = With(tasks, tk)
                /\ out' = Dispatched(Out(tk, "suspended", "session-ended", room_code,
                                         None, [room_code |-> room_code]))
                /\ rest' = rest
    /\ UNCHANGED <<rooms, room_attention_data, closed>>

(* line 116: the response once the emit is done                            *)
end_session_route_finish(tk) ==
    /\ tk.op = "end_session_route"
    /\ tk.pc = "session_ended"
    /\ tasks' = Without(tk)
    /\ out' = Returned(tk)
    /\ rest' = Response(tk.user_db_id, 200, 0, tk.room, NoStats, <<>>)
    /\ UNCHANGED <<rooms, room_attention_data, db_sessions, db_participants, closed>>

(* POST /ai/v2/context/{room_code}: rotas_ia.py lines 33-68, behind        *)
(* auth.get_current_teacher.  The route looks the session up by room code  *)
(* alone, creates it for the caller when there is none, makes it active    *)
(* again when it is inactive, and only then refuses a caller who is not    *)
(* its teacher.  What follows (lines 70-156, the upload) does not touch    *)
(* the session; status is the answer it ends with.                         *)
definir_contexto_ia_v2(current_user, room_code, status) ==
    /\ LET session_id == SessionId(db_sessions, room_code) IN
       IF current_user.role \notin {"teacher", "admin"}
       THEN /\ db_sessions' = db_sessions
            /\ rest' = Response(current_user.id, 403, 0, room_code, NoStats, <<>>)
       ELSE IF session_id = 0
       THEN /\ db_sessions' = Append(db_sessions, SessionRow(room_code, current_user.id))
            /\ rest' = Response(current_user.id, status, Len(db_sessions) + 1, room_code,
                                NoStats, <<>>)
       ELSE /\ db_sessions' = [db_sessions EXCEPT ![session_id].is_active = TRUE]
            /\ rest' = Response(current_user.id,
                                IF db_sessions[session_id].teacher_id # current_user.id
                                THEN 403 ELSE status,
                                session_id, room_code, NoStats, <<>>)
    /\ UNCHANGED <<rooms, room_attention_data, tasks, out, db_participants, closed>>

(* _broadcast_dashboard_update(room_code) called on its own: the payload   *)
(* it emits for the registry and the ledger as they are.                   *)
dashboard_update(room_code) ==
    /\ out' = Dispatched(
                  Out(Task("_broadcast_dashboard_update", None, "dashboard", room_code),
                      "suspended", "dashboard-update", room_code, None,
                      broadcast_dashboard_update(rooms, room_attention_data, room_code)))
    /\ UNCHANGED <<rooms, room_attention_data, tasks, db_sessions, db_participants, rest, closed>>

----------------------------------------------------------------------------
(* The event loop: events arrive for any connection at any time and the    *)
(* suspended handlers resume in any order.                                 *)

Init ==
    /\ rooms = <<>>
    /\ room_attention_data = EmptyMap
    /\ tasks = EmptyBag
    /\ out = NoOut
    /\ db_sessions = <<>>
    /\ db_participants = <<>>
    /\ rest = NoResponse
    /\ closed = {}

Resume ==
    \E tk \in InFlight :
        \/ disconnect_dashboard(tk)
        \/ disconnect_resume(tk)
        \/ join_room_register(tk)
        \/ join_room_user_joined(tk)
        \/ join_room_dashboard(tk)
        \/ join_room_finish(tk)
        \/ attention_update_dashboard(tk)
        \/ attention_update_finish(tk)

(* Interleaved handlers: an event is dispatched while other handlers are   *)
(* suspended.                                                              *)
Events ==
    \E sid \in Sids :
        \/ disconnect(sid)
        \/ \E room_in \in RoomCodes : join_room(sid, room_in, "Alice", NoUser)
        \/ \E room_in \in RoomCodes : attention_update(sid, room_in, "True")

Next == Events \/ Resume

Spec == Init /\ [][Next]_vars

(* Serial handlers: an event is dispatched only when no handler is         *)
(* suspended, so every handler runs from its event to its end without      *)
(* another handler in between.                                             *)
SerialEvents ==
    /\ tasks = EmptyBag
    /\ \E sid \in Sids :
        \/ disconnect(sid)
        \/ \E room_in \in RoomCodes \cup {None}, name_in \in {"Alice", None} :
               join_room(sid, room_in, name_in, NoUser)
        \/ \E room_in \in RoomCodes \cup {None} : attention_update(sid, room_in, "True")

SerialNext == SerialEvents \/ Resume

SpecSerial == Init /\ [][SerialNext]_vars

(* The aggregation on its own: the registry holds room DashRoom with any   *)
(* ordered, non-empty set of up to MaxParticipants participants, or no     *)
(* room at all; the ledger holds any readings for the room (those of       *)
(* connections that are not participants included: attention_update        *)
(* stores them); the session table has no row, or the session of DashRoom  *)
(* owned by teacher 1 and that of "default" owned by teacher 2.            *)
DashRoom == RoomName[2]

DashSids == {SidName[i] : i \in 1..MaxParticipants}

DashMembers ==
    {s \in UNION {[1..n -> DashSids] : n \in 1..MaxParticipants} :
        \A i, j \in 1..Len(s) : s[i] = s[j] => i = j}

DashReadings ==
    UNION {[d -> {[is_attentive |-> a] : a \in {"True", "False", None}}] :
               d \in SUBSET DashSids}

DashInit ==
    /\ \/ /\ rooms = <<>>
          /\ room_attention_data = EmptyMap
       \/ \E s \in DashMembers, f \in DashReadings :
             /\ rooms = <<[k |-> DashRoom,
                           v |-> [i \in 1..Len(s) |->
                                     [k |-> s[i],
                                      v |-> [name |-> "Alice", sid |-> s[i],
                                             user_db_id |-> NoUser]]]]>>
             /\ room_attention_data = [r \in {DashRoom} |-> f]
    /\ tasks = EmptyBag
    /\ out = NoOut
    /\ db_sessions \in {<<>>, <<SessionRow(DashRoom, 1), SessionRow(RoomName[1], 2)>>}
    /\ db_participants = <<>>
    /\ rest = NoResponse
    /\ closed = {}

DashNext ==
    \E room_code \in RoomCodes :
        \/ dashboard_update(room_code)
        \/ \E current_user \in Users : get_session_dashboard(current_user, room_code)

SpecDash == DashInit /\ [][DashNext]_vars

(* The router, handlers run one at a time: every socket event.             *)
RouterEvents ==
    /\ tasks = EmptyBag
    /\ \E sid \in Sids :
        \/ disconnect(sid)
        \/ \E room_in \in RoomCodes : join_room(sid, room_in, "Alice", NoUser)
        \/ \E room_in \in RoomCodes, is_attentive \in {"True", "False"} :
               attention_update(sid, room_in, is_attentive)
        \/ \E room_in \in RoomCodes \cup {None} : chat_message(sid, room_in)
        \/ \E room_in \in RoomCodes \cup {None} : transcript_update(sid, room_in)
        \/ \E target \in Sids \cup {None} : offer(sid, target)
        \/ \E target \in Sids \cup {None} : answer(sid, target)
        \/ \E target \in Sids \cup {None} : ice_candidate(sid, target)
        \/ \E room_in \in RoomCodes \cup {None} : end_session(sid, room_in)

RouterResume ==
    \E tk \in InFlight :
        \/ relay_finish(tk)
        \/ broadcast_finish(tk)
        \/ end_session_finish(tk)

RouterNext == RouterEvents \/ Resume \/ RouterResume

SpecRouter == Init /\ [][RouterNext]_vars

(* Sessions, handlers run one at a time: the session routes, the context   *)
(* route, the end_session socket event, and the joins, attention updates   *)
(* and disconnects of users with or without a durable id.  The session     *)
(* table starts empty; sessions are created for the generated room codes,  *)
(* of which "default" is none.                                             *)
SessionCodes == RoomCodes \ {"default"}

SessionEvents ==
    /\ tasks = EmptyBag
    /\ \/ \E sid \in Sids :
            \/ disconnect(sid)
            \/ \E room_in \in SessionCodes, name_in \in {"Alice", "Bob"},
                  user_db_id \in {NoUser, 3} :
                   join_room(sid, room_in, name_in, user_db_id)
            \/ \E room_in \in SessionCodes : attention_update(sid, room_in, "True")
            \/ \E room_in \in RoomCodes \cup {None} : end_session(sid, room_in)
       \/ \E current_user \in Users, room_code \in SessionCodes :
            \/ create_session(current_user, room_code)
            \/ end_session_route(current_user, room_code)
            \/ \E status \in {200, 400} :
                   definir_contexto_ia_v2(current_user, room_code, status)

SessionResume ==
    \E tk \in InFlight :
        \/ end_session_finish(tk)
        \/ end_session_route_finish(tk)

SessionNext == SessionEvents \/ Resume \/ SessionResume

SpecSession == Init /\ [][SessionNext]_vars

(* Faults, handlers run one at a time: any emit may raise, and the         *)
(* participation write of a join with a durable user id may raise.  The    *)
(* session table holds the active session of room FaultRoom.               *)
FaultRoom == RoomName[2]

FaultInit ==
    /\ rooms = <<>>
    /\ room_attention_data = EmptyMap
    /\ tasks = EmptyBag
    /\ out = NoOut
    /\ db_sessions = <<SessionRow(FaultRoom, 1)>>
    /\ db_participants = <<>>
    /\ rest = NoResponse
    /\ closed = {}

FaultEvents ==
    /\ tasks = EmptyBag
    /\ \E sid \in Sids :
        \/ disconnect(sid)
        \/ \E room_in \in RoomCodes, user_db_id \in {NoUser, 3} :
               join_room(sid, room_in, "Alice", user_db_id)
        \/ \E room_in \in RoomCodes : attention_update(sid, room_in, "True")

FaultResume ==
    \E tk \in InFlight :
        \/ emit_raises(tk)
        \/ join_room_register_db_error(tk)

FaultNext == FaultEvents \/ Resume \/ FaultResume

SpecFault == FaultInit /\ [][FaultNext]_vars

(* Connections that live once, interleaved handlers: a connection sends    *)
(* its events, the server delivers its disconnect once, and no event of it *)
(* is dispatched afterwards; the handlers it started go on.                *)
LifeEvents ==
    \/ \E sid \in Sids \ closed, room_in \in RoomCodes :
           join_room(sid, room_in, "Alice", NoUser)
    \/ \E sid \in Sids : disconnect_once(sid)

LifeResume ==
    \E tk \in InFlight :
        \/ disconnect_dashboard(tk)
        \/ disconnect_resume(tk)
        \/ join_room_register(tk)
        \/ join_room_user_joined(tk)
        \/ join_room_dashboard(tk)
        \/ join_room_finish(tk)

LifeNext == LifeEvents \/ LifeResume

SpecLife == Init /\ [][LifeNext]_vars

----------------------------------------------------------------------------
(* Properties                                                              *)

Members(room_code) == KeySet(UsersOf(rooms, room_code))

RoomsOf(sid) == {r \in KeySet(rooms) : sid \in Members(r)}

(* C1: no room code of the registry is mapped to an empty participant map, *)
(* in any reachable state, the await points of the handlers included.      *)
C1_NoEmptyRoom == \A i \in 1..Len(rooms) : rooms[i].v # <<>>

(* C2: every connection id is a participant of at most one room.           *)
C2_AtMostOneRoom == \A sid \in Sids : Cardinality(RoomsOf(sid)) <= 1

(* C3: an attention_update naming a room of which the sender is not a      *)
(* participant leaves the ledger as it was.                                *)
C3_NonMemberUpdateRejected ==
    [][(/\ out'.op = "attention_update"
        /\ out'.start
        /\ out'.sid \notin Members(out'.room))
       => room_attention_data' = room_attention_data]_vars

(* C4: a reading stored in the ledger under (R, C) implies that C is a     *)
(* participant of R in the registry.                                       *)
C4_ReadingImpliesMember ==
    \A r \in DOMAIN room_attention_data :
        \A c \in DOMAIN room_attention_data[r] : c \in Members(r)

(* C5: with handlers run one at a time, a disconnect event delivered again *)
(* right after the disconnect handler of the same connection returned      *)
(* returns without raising, emits nothing and leaves the registry and the  *)
(* ledger as they were.                                                    *)
C5_DisconnectIdempotent ==
    [][(out'.op = "disconnect" /\ out'.start /\ out'.stale)
       => /\ rooms' = rooms
          /\ room_attention_data' = room_attention_data
          /\ tasks' = tasks
          /\ out'.status = "returned"
          /\ out'.event = None]_vars

(* C5 witness: the disconnect handler of c1 has taken c1 out of R1, where  *)
(* c2 stays, and a second disconnect of c1 has been handled.               *)
C5_Witness ==
    /\ out.op = "disconnect" /\ out.sid = "c1" /\ out.start /\ out.stale
    /\ out.left = "R1"
    /\ out.status = "returned"
    /\ Members("R1") = {"c2"}

StatsWellFormed(stats) ==
    /\ 0 <= stats.attentive
    /\ stats.attentive <= stats.total
    /\ stats.total = 0 => stats.attention_rate = 0
    /\ stats.total > 0 =>
          LET d == stats.attention_rate * stats.total - 1000 * stats.attentive
          IN  2 * d <= stats.total /\ -2 * d <= stats.total

(* C6: the statistics of the dashboard-update broadcast and of the REST    *)
(* dashboard satisfy 0 <= attentive <= total; attention_rate (in tenths)   *)
(* is the tenth nearest to attentive / total * 100 when total > 0 and 0    *)
(* when total = 0, a room code absent from the registry included.          *)
C6_StatsWellFormed ==
    /\ out.event = "dashboard-update" => StatsWellFormed(out.payload.stats)
    /\ rest.status = 200 => StatsWellFormed(rest.stats)

(* C6 witness: the broadcast for a room of three with two attentive (66.7) *)
(* and the REST answer for a room code that is absent from the registry.   *)
C6_Witness ==
    /\ out.event = "dashboard-update"
    /\ out.payload.stats.total = 3
    /\ out.payload.stats.attentive = 2
    /\ out.payload.stats.attention_rate = 667
    /\ rest.status = 200
    /\ ~Has(rooms, rest.room_code)
    /\ rest.stats.total = 0

AttentiveMembers(room_code) ==
    {c \in Members(room_code) :
        /\ c \in DOMAIN AttentionOf(room_attention_data, room_code)
        /\ room_attention_data[room_code][c].is_attentive = "True"}

SnapshotCounts(room_code, stats, participants) ==
    /\ stats.total = Cardinality(Members(room_code))
    /\ Len(participants) = stats.total
    /\ stats.attentive = Cardinality(AttentiveMembers(room_code))

SnapshotExample(room_code, stats) ==
    (/\ Members(room_code) = {"c1", "c2"}
     /\ DOMAIN AttentionOf(room_attention_data, room_code) = {"c1"}
     /\ room_attention_data[room_code]["c1"].is_attentive = "True")
    => stats = [total |-> 2, attentive |-> 1, inattentive |-> 1, attention_rate |-> 500]

C7_BroadcastSnapshot ==
    out.event = "dashboard-update" =>
        /\ SnapshotCounts(out.room, out.payload.stats, out.payload.participants)
        /\ SnapshotExample(out.room, out.payload.stats)

C7_RestSnapshot ==
    rest.status = 200 =>
        /\ SnapshotCounts(rest.room_code, rest.stats, rest.participants)
        /\ SnapshotExample(rest.room_code, rest.stats)

(* C7: in a dashboard snapshot of room R, broadcast or REST, total is the  *)
(* number of registry participants of R with one detail entry each,        *)
(* attentive counts the participants whose reading is True, and for        *)
(* participants c1, c2 with the single reading c1 = True the snapshot is   *)
(* total 2, attentive 1, inattentive 1, attention_rate 50.0.               *)
C7_Snapshot == C7_BroadcastSnapshot /\ C7_RestSnapshot

(* C8: computed from the same registry and ledger, the REST dashboard and  *)
(* the dashboard-update broadcast of a room carry the same total,          *)
(* attentive, inattentive and attention_rate.                              *)
C8_SamePolicy ==
    (out.event = "dashboard-update" /\ rest.status = 200 /\ out.room = rest.room_code)
    => out.payload.stats = rest.stats

IdsOf(users) == [i \in 1..Len(users) |-> users[i].id]

(* C9: the existing-users list unicast to a joiner lists exactly the       *)
(* participants registered in the room immediately before the join took    *)
(* effect: none for a room that was absent, and one fewer than the room    *)
(* holds afterwards for a connection that was not yet a participant.       *)
C9_ExistingUsersBeforeJoin ==
    [][(out'.event = "existing-users" /\ tasks' # tasks)
       => LET users == out'.payload.users
              room == out'.room
          IN  /\ out'.to = out'.sid
              /\ IdsOf(users) = DictKeys(UsersOf(rooms, room))
              /\ ~Has(rooms, room) => Len(users) = 0
              /\ out'.sid \notin Members(room)
                    => Len(users) = Len(UsersOf(rooms', room)) - 1]_vars

(* C9 witness: c2 joins the room that c1 created and is told of c1 alone.  *)
C9_Witness ==
    /\ out.event = "existing-users" /\ out.sid = "c2"
    /\ IdsOf(out.payload.users) = <<"c1">>
    /\ DictKeys(UsersOf(rooms, out.room)) = <<"c1", "c2">>

C10_AfterDisconnect ==
    (out.op = "disconnect" /\ out.status = "returned") =>
        /\ RoomsOf(out.sid) = {}
        /\ \A r \in RoomCodes : Members(r) = {} =>
              ~Has(rooms, r) /\ r \notin DOMAIN room_attention_data

C10_DroppedUpdate ==
    [][(/\ out'.op = "attention_update"
        /\ out'.start
        /\ out'.room \notin DOMAIN room_attention_data)
       => /\ rooms' = rooms
          /\ room_attention_data' = room_attention_data
          /\ tasks' = tasks
          /\ out'.status = "returned"
          /\ out'.event = None]_vars

(* C10: with handlers run one at a time, when a disconnect handler returns *)
(* its connection is in no room, every room left without participants is  *)
(* gone from the registry and from the ledger, and an attention_update     *)
(* naming a room the ledger does not track returns without raising, emits  *)
(* nothing and changes no state.                                           *)
C10_SoleParticipantLeaves == []C10_AfterDisconnect /\ C10_DroppedUpdate

(* C10 witness: the disconnect handler of c1 has taken c1 out of R1 and    *)
(* returned, R1 is gone, and an attention_update of c1 naming R1 has been  *)
(* dropped.                                                                *)
C10_Witness ==
    /\ out.op = "attention_update" /\ out.sid = "c1" /\ out.room = "R1"
    /\ out.start /\ out.stale /\ out.left = "R1" /\ out.status = "returned"
    /\ ~Has(rooms, "R1")
    /\ "R1" \notin DOMAIN room_attention_data

----------------------------------------------------------------------------
RelayOps == {"offer", "answer", "ice_candidate"}

RelayEvent(op) == IF op = "ice_candidate" THEN "ice-candidate" ELSE op

C11_OneUnicast ==
    [][(out'.op \in RelayOps /\ out'.start)
       => /\ rooms' = rooms
          /\ room_attention_data' = room_attention_data
          /\ out'.status = "suspended"
          /\ out'.event = RelayEvent(out'.op)
          /\ out'.skip_sid = None
          /\ out'.payload.from = out'.sid
          /\ \E tk \in BagToSet(tasks') :
                 tk.op = out'.op /\ tk.sid = out'.sid /\ out'.to = tk.target]_vars

C11_ThenReturns ==
    [][(out.op \in RelayOps /\ out.status = "suspended")
       => /\ rooms' = rooms
          /\ room_attention_data' = room_attention_data
          /\ out'.op = out.op /\ out'.sid = out.sid
          /\ out'.status = "returned"
          /\ out'.event = None]_vars

(* C11: with handlers run one at a time, an offer, answer or ice_candidate *)
(* event is handled by one emit of the matching event addressed to the     *)
(* target of the payload alone, carrying the sender's connection id, then  *)
(* a return; the handler never raises and leaves the registry and the      *)
(* ledger as they were, whether or not sender or target is in a room.      *)
C11_SignalingRelay ==
    /\ C11_OneUnicast
    /\ C11_ThenReturns
    /\ [](out.op \in RelayOps => out.status # "raised")

(* C11 witness: the offer of c1, a participant of R1, for c2, which is in  *)
(* no room, is emitted to c2.                                              *)
C11_Witness ==
    /\ out.op = "offer" /\ out.event = "offer"
    /\ out.sid = "c1" /\ out.to = "c2"
    /\ out.payload.from = "c1"
    /\ RoomsOf("c1") = {"R1"} /\ RoomsOf("c2") = {}

ParticipantIds(payload) == {payload.participants[i].id : i \in 1..Len(payload.participants)}

(* C12: the dashboard-update a handler broadcasts shows the handler's own  *)
(* mutation: a join_room lists the joiner, an attention_update shows the   *)
(* sender with its reading, a disconnect does not list the connection.     *)
C12_BroadcastReflectsEvent ==
    out.event = "dashboard-update" =>
        /\ out.op = "join_room" => out.sid \in ParticipantIds(out.payload)
        /\ out.op = "attention_update" =>
               \E i \in 1..Len(out.payload.participants) :
                   /\ out.payload.participants[i].id = out.sid
                   /\ out.payload.participants[i].is_attentive = "True"
        /\ out.op = "disconnect" => out.sid \notin ParticipantIds(out.payload)

(* C13: a dashboard-update broadcast by a disconnect handler is for a room *)
(* that still has a participant.                                           *)
C13_NoBroadcastForEmptiedRoom ==
    (out.op = "disconnect" /\ out.event = "dashboard-update") => Members(out.room) # {}

EmptyRooms == {rooms[i].k : i \in {j \in 1..Len(rooms) : rooms[j].v = <<>>}}

(* C14: while the registry maps a room to no participant, the only steps   *)
(* taken are those of a disconnect handler that is at work on that room:   *)
(* no event is dispatched and no other handler resumes in between.         *)
C14_LeaveAtomic ==
    [][\A r \in EmptyRooms :
          \E tk \in InFlight : /\ tk.op = "disconnect"
                               /\ tk.room = r
                               /\ CopiesIn(tk, tasks') < CopiesIn(tk, tasks)]_vars

(* C15: when an emit raises in join_room, attention_update or disconnect,  *)
(* the handler's mutation is complete: the disconnected connection is in   *)
(* no room and no room is left without participants, the joiner is         *)
(* registered, the reading is stored.                                      *)
C15_EmitFailureKeepsStateWhole ==
    (out.status = "raised" /\ out.failed # None) =>
        /\ out.op = "disconnect" => RoomsOf(out.sid) = {} /\ EmptyRooms = {}
        /\ out.op = "join_room" =>
               out.sid \in Members(out.room) /\ out.room \in DOMAIN room_attention_data
        /\ out.op = "attention_update" =>
               out.sid \in DOMAIN AttentionOf(room_attention_data, out.room)

C16_Registered ==
    [][(out'.op = "join_room" /\ out'.failed = "db")
       => /\ out'.sid \in KeySet(UsersOf(rooms', out'.room))
          /\ out'.room \in DOMAIN room_attention_data'
          /\ db_participants' = db_participants
          /\ out'.status = "suspended"
          /\ out'.event = "existing-users"
          /\ out'.to = out'.sid
          /\ IdsOf(out'.payload.users) = DictKeys(UsersOf(rooms, out'.room))]_vars

C16_ThenUserJoined ==
    [][(out.op = "join_room" /\ out.event = "existing-users" /\ out'.failed = None)
       => /\ out'.op = "join_room" /\ out'.sid = out.sid
          /\ out'.event = "user-joined"
          /\ out'.to = out.room /\ out'.skip_sid = out.sid
          /\ out'.payload.id = out.sid]_vars

C16_ThenDashboard ==
    [][(out.op = "join_room" /\ out.event = "user-joined" /\ out'.failed = None)
       => /\ out'.op = "join_room" /\ out'.sid = out.sid
          /\ out'.event = "dashboard-update"
          /\ out'.to = out.room
          /\ out.sid \in ParticipantIds(out'.payload)]_vars

(* C16: with handlers run one at a time, when the participation write of a *)
(* join_room with a durable user id raises, the handler goes on: the       *)
(* joiner is registered, no row is written, the existing-users list of the *)
(* participants before the join is emitted to the joiner, and, as after    *)
(* every existing-users emit that does not raise, user-joined and then the *)
(* dashboard-update listing the joiner are emitted to the room.            *)
C16_DbFailureAbsorbed == C16_Registered /\ C16_ThenUserJoined /\ C16_ThenDashboard

(* C16 witness: c2 joins FaultRoom, which has an active session and c1 in  *)
(* it, with durable id 3; the write raises, no row is written, and c2 is   *)
(* registered and told of c1.                                              *)
C16_Witness ==
    /\ out.op = "join_room" /\ out.failed = "db" /\ out.sid = "c2"
    /\ out.room = FaultRoom
    /\ ActiveSessionId(db_sessions, FaultRoom) # 0
    /\ db_participants = <<>>
    /\ DictKeys(UsersOf(rooms, FaultRoom)) = <<"c1", "c2">>
    /\ Get(Get(rooms, FaultRoom), "c2").user_db_id = 3
    /\ IdsOf(out.payload.users) = <<"c1">>

(* C17: a session-ended broadcast to room R is emitted by the session      *)
(* route on the request of the teacher who owns the session of R.          *)
C17_OnlyOwnerEndsSession ==
    out.event = "session-ended" =>
        \E tk \in InFlight :
            /\ tk.op = "end_session_route"
            /\ tk.room = out.to
            /\ OwnedSessionId(db_sessions, tk.room, tk.user_db_id) # 0

(* C18: GET /dashboard/session/{room_code} answers 200 only to the teacher *)
(* who owns the session of the room code, and answers 404 to a teacher     *)
(* when no session row has the room code.                                  *)
C18_OnlyOwnerReadsDashboard ==
    /\ rest.status = 200 =>
           OwnedSessionId(db_sessions, rest.room_code, rest.user_id) # 0
    /\ (rest.user_id \in {1, 2} /\ SessionId(db_sessions, rest.room_code) = 0) =>
           rest.status = 404

(* C19: a chat_message or transcript_update is broadcast to a room only if *)
(* its sender is a participant of that room.                               *)
C19_SenderIsParticipant ==
    out.event \in {"chat_message", "transcript_update"} => out.sid \in Members(out.to)

(* C20: user-joined, user-left, student_attention, chat_message and        *)
(* transcript_update are emitted to a room with skip_sid the originating   *)
(* connection; dashboard-update and session-ended are emitted to a room    *)
(* with no skip_sid.                                                       *)
C20_Addressing ==
    /\ out.event \in {"user-joined", "user-left", "student_attention",
                       "chat_message", "transcript_update"}
          => /\ out.to = out.room
             /\ out.to \in RoomCodes
             /\ out.skip_sid = out.sid
             /\ out.sid \in Sids
    /\ out.event \in {"dashboard-update", "session-ended"}
          => /\ out.to = out.room
             /\ out.to \in RoomCodes
             /\ out.skip_sid = None

(* C20 witness: c1, in R1 with c2, sends a chat_message, which goes to R1  *)
(* with c1 skipped.                                                        *)
C20_Witness ==
    /\ out.event = "chat_message"
    /\ out.sid = "c1" /\ out.to = "R1" /\ out.skip_sid = "c1"
    /\ Members("R1") = {"c1", "c2"}

(* C21: a join_room of a connection that is already a participant of the   *)
(* room replaces that connection's entry by the new display name and       *)
(* durable id, and leaves the number of participants, their order and      *)
(* every other participant's entry as they were.                           *)
C21_RejoinOverwrites ==
    [][\A tk \in InFlight :
          (/\ tk.op = "join_room" /\ tk.pc = "enter_room"
           /\ tk.sid \in Members(tk.room)
           /\ tasks' # tasks)
          => /\ Get(UsersOf(rooms', tk.room), tk.sid) =
                   [name |-> tk.name, sid |-> tk.sid, user_db_id |-> tk.user_db_id]
             /\ Len(UsersOf(rooms', tk.room)) = Len(UsersOf(rooms, tk.room))
             /\ DictKeys(UsersOf(rooms', tk.room)) = DictKeys(UsersOf(rooms, tk.room))
             /\ \A c \in Members(tk.room) \ {tk.sid} :
                   Get(UsersOf(rooms', tk.room), c) = Get(UsersOf(rooms, tk.room), c)
             /\ \A r \in KeySet(rooms) \ {tk.room} : UsersOf(rooms', r) = UsersOf(rooms, r)
             /\ DictKeys(rooms') = DictKeys(rooms)]_vars

(* C21 witness: c1 was in R1 as Alice, ahead of c2, and has joined R1      *)
(* again as Bob with a durable id.                                         *)
C21_Witness ==
    /\ out.op = "join_room" /\ out.event = "existing-users" /\ out.sid = "c1"
    /\ Len(out.payload.users) = 2
    /\ out.payload.users[1] = [id |-> "c1", name |-> "Alice"]
    /\ DictKeys(UsersOf(rooms, "R1")) = <<"c1", "c2">>
    /\ Get(UsersOf(rooms, "R1"), "c1") = [name |-> "Bob", sid |-> "c1", user_db_id |-> 3]

(* C22: a step of the attention_update handler of connection c leaves the  *)
(* registry as it was and changes at most the reading kept under c in the  *)
(* room the event names: no room enters or leaves the ledger, and every    *)
(* reading under another connection, in every room, is as it was.          *)
C22_OwnReadingOnly ==
    [][out'.op = "attention_update"
       => /\ rooms' = rooms
          /\ DOMAIN room_attention_data' = DOMAIN room_attention_data
          /\ \A r \in DOMAIN room_attention_data :
                \A c \in DOMAIN room_attention_data[r] \cup DOMAIN room_attention_data'[r] :
                   (r # out'.room \/ c # out'.sid)
                   => /\ c \in DOMAIN room_attention_data[r]
                      /\ c \in DOMAIN room_attention_data'[r]
                      /\ room_attention_data'[r][c] = room_attention_data[r][c]]_vars

(* C22 witness: c1 and c2 are in R1, c2 has reported inattentive, and the  *)
(* update of c1 has stored an attentive reading beside it.                 *)
C22_Witness ==
    /\ out.op = "attention_update" /\ out.sid = "c1" /\ out.room = "R1"
    /\ out.event = "student_attention"
    /\ Members("R1") = {"c1", "c2"}
    /\ DOMAIN room_attention_data["R1"] = {"c1", "c2"}
    /\ room_attention_data["R1"]["c1"].is_attentive = "True"
    /\ room_attention_data["R1"]["c2"].is_attentive = "False"

(* C23: no step of the end_session event, nor of the REST end operation,   *)
(* changes the registry or the ledger; and an attention_update that names  *)
(* a room the ledger tracks is recorded under its sender and broadcast as  *)
(* student_attention also when the session of that room has been ended.    *)
C23_EndSessionKeepsMemory ==
    [][/\ out'.op \in {"end_session", "end_session_route"}
          => /\ rooms' = rooms
             /\ room_attention_data' = room_attention_data
       /\ (/\ out'.op = "attention_update" /\ out'.start
           /\ Tracked(room_attention_data, out'.room))
          => /\ out'.sid \in DOMAIN room_attention_data'[out'.room]
             /\ out'.event = "student_attention"
             /\ out'.to = out'.room]_vars

(* C23 witness: user 3 joined R1 on c1 while its session was active, the   *)
(* session has been ended, c1 is still registered in R1 and its later      *)
(* attention_update has been recorded and broadcast.                       *)
C23_Witness ==
    /\ out.op = "attention_update" /\ out.sid = "c1" /\ out.room = "R1"
    /\ out.event = "student_attention"
    /\ SessionId(db_sessions, "R1") # 0
    /\ ~db_sessions[SessionId(db_sessions, "R1")].is_active
    /\ \E i \in 1..Len(db_participants) :
          /\ db_participants[i].session_id = SessionId(db_sessions, "R1")
          /\ db_participants[i].left_at # None
    /\ Has(UsersOf(rooms, "R1"), "c1")
    /\ Get(UsersOf(rooms, "R1"), "c1").user_db_id = 3
    /\ "c1" \in DOMAIN room_attention_data["R1"]

(* C24: each connection disconnects once.  A disconnect handler that has   *)
(* left a room in which other participants were registered when it began   *)
(* (they are still ahead in its snapshot of the room, which is the last    *)
(* room of its snapshot of the registry) and resumes after its emits, the  *)
(* handlers of those participants having run in between, returns without   *)
(* raising and leaves that room either with a participant or absent from   *)
(* the registry and the ledger alike.                                      *)
C24_DisconnectsInterleave ==
    [][\A tk \in InFlight :
          (/\ tk.op = "disconnect" /\ tk.pc = "dashboard"
           /\ tk.users # <<>> /\ tk.keys = <<>>
           /\ tasks' = Without(tk)
           /\ out'.op = "disconnect" /\ out'.sid = tk.sid)
          => /\ out'.status = "returned"
             /\ tk.room \notin EmptyRooms'
             /\ ~Has(rooms', tk.room) => tk.room \notin DOMAIN room_attention_data']_vars

(* C25: once the disconnect event of connection c has been handled and no  *)
(* handler of c is in flight, c is a participant of no room.               *)
C25_GoneAfterDisconnect ==
    \A c \in closed : (\A tk \in InFlight : tk.sid # c) => RoomsOf(c) = {}

(* C26: no join_room handler ends by raising, whatever disconnect handlers *)
(* run at its awaits.                                                      *)
C26_JoinNeverRaises ==
    out.op = "join_room" => out.status # "raised"

(* C27: the existing-users list unicast to a joiner does not contain the   *)
(* joiner's own connection id, a repeated join of the same room included.  *)
C27_ExistingUsersExcludeJoiner ==
    out.event = "existing-users"
    => \A i \in 1..Len(out.payload.users) : out.payload.users[i].id # out.sid

(* C28: in every state, the states at the awaits of the handlers included, *)
(* the room codes of the registry are the room codes of the ledger.        *)
C28_SameRooms ==
    KeySet(rooms) = DOMAIN room_attention_data

(* C28 witness: while another handler is suspended, R1 is in the registry  *)
(* and the ledger with a participant, and the disconnect handler that      *)
(* emptied the room "default" has returned, that room being gone from     *)
(* both.                                                                   *)
C28_Witness ==
    /\ out.op = "disconnect" /\ out.status = "returned" /\ out.left = "default"
    /\ tasks # EmptyBag
    /\ KeySet(rooms) = {"R1"}
    /\ DOMAIN room_attention_data = {"R1"}
    /\ Members("R1") # {}

(* C29: no two participation rows have the same session and user, and no   *)
(* row is without a durable user id.                                       *)
C29_RowsDistinct ==
    \A i, j \in 1..Len(db_participants) :
        /\ db_participants[i].user_id # NoUser
        /\ (/\ db_participants[i].session_id = db_participants[j].session_id
            /\ db_participants[i].user_id = db_participants[j].user_id) => i = j

(* C29: a step adds at most one row, and only as the registering step of a *)
(* join_room that carries a durable user id, for the active session of the *)
(* room joined; a join without a durable id, or of a room with no active   *)
(* session, leaves the rows as they were.                                  *)
C29_RowOnlyForActiveSession ==
    [][/\ Len(db_participants') >= Len(db_participants)
       /\ Len(db_participants') > Len(db_participants)
          => /\ db_participants' =
                   Append(db_participants, db_participants'[Len(db_participants')])
             /\ \E tk \in InFlight :
                   /\ tk.op = "join_room" /\ tk.pc = "enter_room"
                   /\ tasks' # tasks /\ out'.sid = tk.sid
                   /\ tk.user_db_id # NoUser
                   /\ ActiveSessionId(db_sessions, tk.room) # 0
                   /\ db_participants'[Len(db_participants')] =
                         [session_id |-> ActiveSessionId(db_sessions, tk.room),
                          user_id |-> tk.user_db_id, left_at |-> None]
       /\ \A tk \in InFlight :
             (/\ tk.op = "join_room" /\ tk.pc = "enter_room" /\ tasks' # tasks
              /\ (tk.user_db_id = NoUser \/ ActiveSessionId(db_sessions, tk.room) = 0))
             => db_participants' = db_participants]_vars

(* C29: the participation rows are distinct and carry a durable user id   *)
(* in every state, and a row is added only by a join_room with a durable   *)
(* user id to a room that has an active session.                           *)
C29_ParticipationRows ==
    []C29_RowsDistinct /\ C29_RowOnlyForActiveSession

(* C29 witness: user 3 is registered in R1 on both c1 and c2, the session  *)
(* of R1 is active, the join on c2 has just registered, and the session    *)
(* has the one row of user 3.                                              *)
C29_Witness ==
    /\ out.op = "join_room" /\ out.event = "existing-users" /\ out.sid = "c2"
    /\ ActiveSessionId(db_sessions, "R1") # 0
    /\ Has(UsersOf(rooms, "R1"), "c1") /\ Has(UsersOf(rooms, "R1"), "c2")
    /\ Get(UsersOf(rooms, "R1"), "c1").user_db_id = 3
    /\ Get(UsersOf(rooms, "R1"), "c2").user_db_id = 3
    /\ db_participants = <<[session_id |-> ActiveSessionId(db_sessions, "R1"),
                            user_id |-> 3, left_at |-> None]>>

(* C30 as stated: a session that is inactive is inactive in every later    *)
(* state.                                                                  *)
C30_EndedStaysEnded ==
    [][\A s \in 1..Len(db_sessions) :
          ~db_sessions[s].is_active => ~db_sessions'[s].is_active]_vars

(* C30, amended: the REST end operation leaves the session inactive and    *)
(* every participation row of it with left_at set; a left_at that is set   *)
(* stays as it is; an inactive session becomes active again only by the    *)
(* answer of POST /ai/v2/context/{room_code} for its room code; and while  *)
(* the session of a room is inactive, a join_room of that room registers   *)
(* the participant in the registry and adds no participation row.          *)
C30_EndedUntilReactivated ==
    [][/\ (out'.op = "end_session_route" /\ out'.start)
          => LET s == SessionId(db_sessions', out'.room)
             IN  /\ s # 0
                 /\ ~db_sessions'[s].is_active
                 /\ \A i \in 1..Len(db_participants') :
                       db_participants'[i].session_id = s
                       => db_participants'[i].left_at # None
       /\ \A i \in 1..Len(db_participants) :
             db_participants[i].left_at # None
             => /\ i <= Len(db_participants')
                /\ db_participants'[i] = db_participants[i]
       /\ \A s \in 1..Len(db_sessions) :
             (~db_sessions[s].is_active /\ db_sessions'[s].is_active)
             => /\ rest'.session_id = s
                /\ rest'.room_code = db_sessions[s].room_code
                /\ rest'.status \in {200, 400, 403}
                /\ UNCHANGED <<rooms, room_attention_data, tasks, out, db_participants>>
       /\ \A tk \in InFlight :
             (/\ tk.op = "join_room" /\ tk.pc = "enter_room" /\ tasks' # tasks
              /\ SessionId(db_sessions, tk.room) # 0
              /\ ~db_sessions[SessionId(db_sessions, tk.room)].is_active)
             => /\ Has(UsersOf(rooms', tk.room), tk.sid)
                /\ db_participants' = db_participants]_vars

(* C30 witness: user 3 joined R1 while its session was active, the session *)
(* has been ended, and c2 has then joined R1: c2 is registered and the     *)
(* rows are the one ended row.                                             *)
C30_Witness ==
    /\ out.op = "join_room" /\ out.event = "existing-users" /\ out.sid = "c2"
    /\ out.room = "R1"
    /\ SessionId(db_sessions, "R1") # 0
    /\ ~db_sessions[SessionId(db_sessions, "R1")].is_active
    /\ Has(UsersOf(rooms, "R1"), "c2")
    /\ db_participants = <<[session_id |-> SessionId(db_sessions, "R1"),
                            user_id |-> 3, left_at |-> "utcnow"]>>

====
